---- MODULE Spec2Model ----
(***************************************************************************)
(* Model of src/utils/apiResponseHandler.js: the ApiResponseValidator      *)
(* (synonym table, default table, dot-path lookup, normalisation) and the  *)
(* VuePressApiHandler built on it (error counter, report).                 *)
(*                                                                         *)
(* JavaScript values are tagged records [t, v, e]: t is the type tag, v    *)
(* the text of a primitive, e the ordered own entries <<key, value>> of an *)
(* object or array (JavaScript keeps insertion order).                     *)
(* Not modelled: console output (so the enableLogging option, which only   *)
(* gates it), and field names that collide with the record's own keys      *)
(* _original/_validation or with Object.prototype.                         *)
(***************************************************************************)
EXTENDS Integers, Sequences, FiniteSets, TLC

VARIABLES fieldMappings, defaultValues, errorCount, now, last

vars == <<fieldMappings, defaultValues, errorCount, now, last>>

---------------------------------------------------------------------------
(* Bounds of the model *)

\* the handler is not called any more once errorCount has reached MaxCount
MaxCount == 6
\* Date.now() stops advancing at MaxClock
MaxClock == 1
\* own entries of a generated response object
MaxEntries == 2

---------------------------------------------------------------------------
(* JavaScript values *)

Val(t, v, e) == [t |-> t, v |-> v, e |-> e]
Undef == Val("undefined", "", <<>>)
Null == Val("null", "", <<>>)
Str(s) == Val("string", s, <<>>)
Num(s) == Val("number", s, <<>>)
Obj(entries) == Val("object", "", entries)
Arr(entries) == Val("array", "", entries)

\* typeof x === 'object' (true of null, of plain objects and of arrays)
TypeofIsObject(x) == x.t \in {"null", "object", "array"}

\* the truthiness that !x and x && ... test
Truthy(x) ==
  CASE x.t \in {"undefined", "null"} -> FALSE
    [] x.t = "string" -> x.v # ""
    [] x.t = "number" -> x.v \notin {"0", "NaN"}
    [] OTHER -> TRUE

\* key in x, for an object or an array (an array also has "length")
HasKey(x, key) ==
  \/ \E i \in 1..Len(x.e) : x.e[i][1] = key
  \/ x.t = "array" /\ key = "length"

\* x[key]: undefined when the key is missing
GetKey(x, key) ==
  IF \E i \in 1..Len(x.e) : x.e[i][1] = key
  THEN x.e[CHOOSE i \in 1..Len(x.e) : x.e[i][1] = key][2]
  ELSE IF x.t = "array" /\ key = "length" THEN Num(ToString(Len(x.e)))
  ELSE Undef

\* x[key] = value on a list of entries: overwrite in place or append
SetKey(entries, key, value) ==
  IF \E i \in 1..Len(entries) : entries[i][1] = key
  THEN [i \in 1..Len(entries) |->
          IF entries[i][1] = key THEN <<key, value>> ELSE entries[i]]
  ELSE Append(entries, <<key, value>>)

---------------------------------------------------------------------------
(* Dot-paths: a path is the sequence of its pieces, "." being the separator, *)
(* so "data.message" is <<"data", ".", "message">>.                          *)

RECURSIVE SplitFrom(_, _, _)
SplitFrom(path, i, cur) ==
  IF i > Len(path) THEN <<cur>>
  ELSE IF path[i] = "." THEN <<cur>> \o SplitFrom(path, i + 1, "")
  ELSE SplitFrom(path, i + 1, cur \o path[i])

\* path.split('.')
Split(path) == SplitFrom(path, 1, "")

---------------------------------------------------------------------------
(* ApiResponseValidator *)

CanonicalFields == {"content", "id", "timestamp", "model", "usage", "error"}

\* the table with message a candidate of content only
FieldMappingsMessageOnce ==
  [f \in CanonicalFields |->
     CASE f = "content" ->
            << <<"content">>, <<"text">>, <<"message">>, <<"response">>, <<"result">> >>
       [] f = "id" ->
            << <<"id">>, <<"messageId">>, <<"requestId">>, <<"uuid">> >>
       [] f = "timestamp" ->
            << <<"timestamp">>, <<"created_at">>, <<"time">>, <<"date">> >>
       [] f = "model" ->
            << <<"model">>, <<"model_name">>, <<"modelName">>, <<"version">> >>
       [] f = "usage" ->
            << <<"usage">>, <<"token_usage">>, <<"tokenUsage">>, <<"consumption">> >>
       [] f = "error" ->
            << <<"error">>, <<"error_message">>, <<"errorMessage">> >>]

InitialFieldMappings ==
  [f \in CanonicalFields |->
     CASE f = "content" ->
            << <<"content">>, <<"text">>, <<"message">>, <<"response">>, <<"result">> >>
       [] f = "id" ->
            << <<"id">>, <<"messageId">>, <<"requestId">>, <<"uuid">> >>
       [] f = "timestamp" ->
            << <<"timestamp">>, <<"created_at">>, <<"time">>, <<"date">> >>
       [] f = "model" ->
            << <<"model">>, <<"model_name">>, <<"modelName">>, <<"version">> >>
       [] f = "usage" ->
            << <<"usage">>, <<"token_usage">>, <<"tokenUsage">>, <<"consumption">> >>
       [] f = "error" ->
            << <<"error">>, <<"error_message">>, <<"errorMessage">>, <<"message">> >>]

\* new Date().toISOString() at clock reading t
ToISOString(t) == "T" \o ToString(t)

\* what Math.random().toString(36).substr(2, 9) may give: two of the suffixes
RandomSuffixes == {"k3x9q0a7b", "z81mfp2c4"}

generateFallbackId(t, r) == "fallback-" \o ToString(t) \o "-" \o r

ZeroUsage == Obj(<< <<"total_tokens", Num("0")>> >>)

\* the defaultValues table the constructor builds at clock reading t
ConstructDefaults(t, r) ==
  [f \in CanonicalFields |->
     CASE f = "content" -> Str("")
       [] f = "id" -> Str(generateFallbackId(t, r))
       [] f = "timestamp" -> Str(ToISOString(t))
       [] f = "model" -> Str("unknown-model")
       [] f = "usage" -> ZeroUsage
       [] f = "error" -> Null]

\* this.defaultValues[field]
DefaultOf(defaults, field) ==
  IF field \in DOMAIN defaults THEN defaults[field] ELSE Undef

RECURSIVE HasFrom(_, _, _)
HasFrom(current, keys, i) ==
  IF i > Len(keys) THEN TRUE
  ELSE IF Truthy(current) /\ TypeofIsObject(current) /\ HasKey(current, keys[i])
       THEN HasFrom(GetKey(current, keys[i]), keys, i + 1)
       ELSE FALSE

hasNestedProperty(obj, path) == HasFrom(obj, Split(path), 1)

RECURSIVE GetFrom(_, _, _)
GetFrom(current, keys, i) ==
  IF i > Len(keys) THEN current
  ELSE GetFrom(GetKey(current, keys[i]), keys, i + 1)

getNestedProperty(obj, path) == GetFrom(obj, Split(path), 1)

\* this.fieldMappings[fieldName] || [fieldName]
PossibleKeys(mappings, fieldName) ==
  IF fieldName \in DOMAIN mappings THEN mappings[fieldName] ELSE << <<fieldName>> >>

RECURSIVE ExtractFrom(_, _, _)
ExtractFrom(response, possibleKeys, i) ==
  IF i > Len(possibleKeys) THEN Null
  ELSE IF hasNestedProperty(response, possibleKeys[i])
       THEN getNestedProperty(response, possibleKeys[i])
       ELSE ExtractFrom(response, possibleKeys, i + 1)

\* the lookup driven by the response's own keys, in the object's key order
RECURSIVE ExtractByObjectOrder(_, _, _)
ExtractByObjectOrder(response, possibleKeys, i) ==
  IF i > Len(response.e) THEN Null
  ELSE IF \E j \in 1..Len(possibleKeys) : possibleKeys[j] = <<response.e[i][1]>>
       THEN response.e[i][2]
       ELSE ExtractByObjectOrder(response, possibleKeys, i + 1)

extractFieldByObjectOrder(mappings, response, fieldName) ==
  ExtractByObjectOrder(response, PossibleKeys(mappings, fieldName), 1)

extractField(mappings, response, fieldName) ==
  ExtractFrom(response, PossibleKeys(mappings, fieldName), 1)

\* the apology text of line 145 (in Chinese in the source), written in ASCII
FallbackContent == "baoqian: API response processing failed, please retry later"

createFallbackResponse(t, r) ==
  [original |-> Undef,
   validation |-> [timestamp |-> ToISOString(t),
                   issues |-> <<"Complete fallback response generated">>],
   fields |-> << <<"content", Str(FallbackContent)>>,
                 <<"id", Str(generateFallbackId(t, r))>>,
                 <<"timestamp", Str(ToISOString(t))>>,
                 <<"model", Str("fallback-model")>>,
                 <<"usage", ZeroUsage>>,
                 <<"error", Str("API compatibility issue detected")>> >>]

\* a value that is not iterable (null) given as requiredFields makes the
\* for...of of line 61 raise; an array is iterated in order
Iterable(requiredFields) == requiredFields.t = "array"

NoRecord ==
  [original |-> Undef,
   validation |-> [timestamp |-> "", issues |-> <<>>],
   fields |-> <<>>]

\* lines 61-69: one required field
RequiredStep(mappings, defaults, response, acc, field) ==
  LET value == extractField(mappings, response, field)
  IN IF value # Null
     THEN [acc EXCEPT !.fields = SetKey(@, field, value)]
     ELSE [acc EXCEPT
             !.fields = SetKey(@, field, DefaultOf(defaults, field)),
             !.validation.issues = Append(@, "Missing field: " \o field)]

RECURSIVE RequiredLoop(_, _, _, _, _, _)
RequiredLoop(mappings, defaults, response, acc, requiredFields, i) ==
  IF i > Len(requiredFields) THEN acc
  ELSE RequiredLoop(mappings, defaults, response,
                    RequiredStep(mappings, defaults, response, acc, requiredFields[i]),
                    requiredFields, i + 1)

OptionalFields == <<"id", "timestamp", "model", "usage", "error">>

\* the optional pass with an issue recorded for a defaulted field
OptionalStepRecordsIssue(mappings, defaults, response, acc, field) ==
  IF ~Truthy(GetKey(Obj(acc.fields), field))
  THEN LET value == extractField(mappings, response, field)
       IN IF value # Null
          THEN [acc EXCEPT !.fields = SetKey(@, field, value)]
          ELSE [acc EXCEPT
                  !.fields = SetKey(@, field, DefaultOf(defaults, field)),
                  !.validation.issues = Append(@, "Missing field: " \o field)]
  ELSE acc

\* lines 73-78: one optional field
OptionalStep(mappings, defaults, response, acc, field) ==
  IF ~Truthy(GetKey(Obj(acc.fields), field))
  THEN LET value == extractField(mappings, response, field)
       IN [acc EXCEPT !.fields =
             SetKey(@, field, IF value # Null THEN value ELSE DefaultOf(defaults, field))]
  ELSE acc

RECURSIVE OptionalLoop(_, _, _, _, _)

OptionalLoop(mappings, defaults, response, acc, i) ==
  IF i > Len(OptionalFields) THEN acc
  ELSE OptionalLoop(mappings, defaults, response,
                    OptionalStep(mappings, defaults, response, acc, OptionalFields[i]),
                    i + 1)

\* the call either returns a record (threw = FALSE) or raises (threw = TRUE)
validateAndNormalize(mappings, defaults, response, requiredFields, t, r) ==
  IF ~Truthy(response) \/ ~TypeofIsObject(response)
  THEN [threw |-> FALSE, rec |-> createFallbackResponse(t, r)]
  ELSE IF ~Iterable(requiredFields)
  THEN [threw |-> TRUE, rec |-> NoRecord]
  ELSE LET start == [original |-> response,
                     validation |-> [timestamp |-> ToISOString(t), issues |-> <<>>],
                     fields |-> <<>>]
           required == RequiredLoop(mappings, defaults, response, start,
                                    [i \in 1..Len(requiredFields.e) |->
                                       requiredFields.e[i][2].v], 1)
       IN [threw |-> FALSE,
           rec |-> OptionalLoop(mappings, defaults, response, required, 1)]

---------------------------------------------------------------------------
(* VuePressApiHandler *)

\* line 166
maxErrors == 5

\* an options record: a key that is not set has has* = FALSE
\* the array of the strings of a sequence
StrArr(seq) == Arr([i \in 1..Len(seq) |-> <<ToString(i - 1), Str(seq[i])>>])

DefaultRequiredFields == StrArr(<<"content">>)

\* lines 176-180: the destructuring defaults apply to keys that are not set
RequiredFieldsOf(options) ==
  IF options.hasRequiredFields THEN options.requiredFields ELSE DefaultRequiredFields

EnableFallbackOf(options) ==
  IF options.hasEnableFallback THEN options.enableFallback ELSE TRUE

\* the catch block with the fault always re-raised
CatchBranchRethrows(enableFallback, count, t, r) ==
  [threw |-> TRUE, rec |-> NoRecord, errorCount |-> count]

\* lines 209-217
CatchBranch(enableFallback, count, t, r) ==
  IF enableFallback
  THEN [threw |-> FALSE, rec |-> createFallbackResponse(t, r), errorCount |-> count]
  ELSE [threw |-> TRUE, rec |-> NoRecord, errorCount |-> count]

\* lines 190-207
CountIssues(normalized, count) ==
  IF Len(normalized.validation.issues) > 0 THEN count + 1 ELSE 0

handleApiResponse(mappings, defaults, count, apiResponse, options, t, r) ==
  LET tried == validateAndNormalize(mappings, defaults, apiResponse,
                                    RequiredFieldsOf(options), t, r)
  IN IF tried.threw
     THEN CatchBranch(EnableFallbackOf(options), count, t, r)
     ELSE [threw |-> FALSE, rec |-> tried.rec,
           errorCount |-> CountIssues(tried.rec, count)]

\* options.enableFallback !== false
NotOptedOut(options) == ~(options.hasEnableFallback /\ ~options.enableFallback)

\* the wrapper's catch block returning the fallback record whatever the options
WrapperCatchIgnoresOptOut(options, count, t, r) ==
  [threw |-> FALSE, rec |-> createFallbackResponse(t, r), errorCount |-> count]

\* lines 231-239: the wrapper's catch block
WrapperCatch(options, count, t, r) ==
  IF NotOptedOut(options)
  THEN [threw |-> FALSE, rec |-> createFallbackResponse(t, r), errorCount |-> count]
  ELSE [threw |-> TRUE, rec |-> NoRecord, errorCount |-> count]

\* the callable createSafeApiWrapper returns, called once; apiCall is what
\* the wrapped function does: it raises (threw) or completes with a value
safeApiWrapper(mappings, defaults, count, apiCall, options, t, r) ==
  IF apiCall.threw
  THEN WrapperCatch(options, count, t, r)
  ELSE LET handled == handleApiResponse(mappings, defaults, count, apiCall.value,
                                        options, t, r)
       IN IF handled.threw
          THEN WrapperCatch(options, handled.errorCount, t, r)
          ELSE handled

getRecommendations(count) ==
  (IF count > 0
   THEN <<"check whether the API response format changed",
          "consider updating the field mapping configuration">>
   ELSE <<>>)
  \o
  (IF count > maxErrors
   THEN <<"contact the API provider about version compatibility",
          "consider an API version detection mechanism">>
   ELSE <<>>)

\* the report with the threshold compared by >= instead of >
generateErrorReportAtThreshold(count, t) ==
  [timestamp |-> ToISOString(t),
   errorCount |-> count,
   maxErrors |-> maxErrors,
   status |-> IF count >= maxErrors THEN "critical" ELSE "normal",
   recommendations |-> getRecommendations(count)]

generateErrorReport(count, t) ==
  [timestamp |-> ToISOString(t),
   errorCount |-> count,
   maxErrors |-> maxErrors,
   status |-> IF count > maxErrors THEN "critical" ELSE "normal",
   recommendations |-> getRecommendations(count)]

NoReport ==
  [timestamp |-> "", errorCount |-> 0, maxErrors |-> 0, status |-> "",
   recommendations |-> <<>>]

---------------------------------------------------------------------------
(* Inputs *)

\* the invalid responses of testFallbackResponse: null, undefined, '', 123, []
InvalidResponses == {Null, Undef, Str(""), Num("123"), Arr(<<>>)}

\* what the value under data may be: nested objects and non-objects
DataValues ==
  {Obj(<< <<"message", Str("x")>> >>),
   Obj(<< <<"message", Null>> >>),
   Obj(<< <<"metadata", Obj(<< <<"id", Str("n")>> >>)>> >>),
   Obj(<<>>), Str("a"), Null}

\* the own entries a generated response object is made of
EntryPool ==
  ({"content"} \X {Str("a"), Null, Undef})
  \cup ({"text"} \X {Str("b"), Null})
  \cup ({"message"} \X {Str("m"), Null, Undef})
  \cup ({"id"} \X {Str("i1"), Null, Undef})
  \cup ({"error"} \X {Str("e")})
  \cup ({"custom"} \X {Str("c")})
  \cup ({"data"} \X DataValues)

DistinctKeys(entries) ==
  \A i, j \in 1..Len(entries) : i # j => entries[i][1] # entries[j][1]

\* every object of at most MaxEntries own entries, in every key order
EntryLists ==
  UNION {{es \in [1..n -> EntryPool] : DistinctKeys(es)} : n \in 0..MaxEntries}

Responses == {Obj(es) : es \in EntryLists}

\* requiredFields as a caller may give it: arrays of names, or null
RequiredChoices ==
  {StrArr(<<>>), StrArr(<<"content">>), StrArr(<<"content", "id">>),
   StrArr(<<"id", "content">>), StrArr(<<"custom">>), StrArr(<<"error">>),
   StrArr(<<"content", "content">>), Null}

FieldChoices == {"content", "id", "error", "custom"}

Options(hasReq, req, hasFb, fb) ==
  [hasRequiredFields |-> hasReq, requiredFields |-> req,
   hasEnableFallback |-> hasFb, enableFallback |-> fb]

NoOptions == Options(FALSE, Undef, FALSE, FALSE)

\* the responses and options the handler is called with
HandlerResponses ==
  InvalidResponses
  \cup {Obj(<<>>), Obj(<< <<"content", Str("a")>> >>)}

HandlerOptions ==
  {NoOptions,
   Options(FALSE, Undef, TRUE, TRUE),
   Options(FALSE, Undef, TRUE, FALSE),
   Options(TRUE, Null, FALSE, FALSE),
   Options(TRUE, Null, TRUE, FALSE),
   Options(TRUE, StrArr(<<"content", "id">>), FALSE, FALSE)}

\* what a wrapped apiCall may do: raise, or complete with a value
ApiCalls ==
  {[threw |-> TRUE, value |-> Undef]}
  \cup {[threw |-> FALSE, value |-> v] :
          v \in {Obj(<<>>), Obj(<< <<"content", Str("a")>> >>)}}

\* the options the wrapper is created with
WrapperOptions ==
  {NoOptions,
   Options(FALSE, Undef, TRUE, FALSE),
   Options(TRUE, Null, FALSE, FALSE),
   Options(TRUE, Null, TRUE, FALSE)}

\* the paths testNestedFieldExtraction pushes (lines 125-126)
ContentPath == <<"data", ".", "message">>
IdPath == <<"data", ".", "metadata", ".", "id">>

Last(op, response, options, field, threw, rec, value, report) ==
  [op |-> op, response |-> response, options |-> options, field |-> field,
   threw |-> threw, rec |-> rec, value |-> value, report |-> report,
   apiThrew |-> FALSE]

---------------------------------------------------------------------------
(* The handler as a state machine *)

Init ==
  /\ fieldMappings = InitialFieldMappings
  /\ now = 0
  /\ \E r \in RandomSuffixes : defaultValues = ConstructDefaults(0, r)
  /\ errorCount = 0
  /\ last = Last("new", Undef, NoOptions, "", FALSE, NoRecord, Undef, NoReport)

\* time passes
Tick ==
  /\ now < MaxClock
  /\ now' = now + 1
  /\ UNCHANGED <<fieldMappings, defaultValues, errorCount, last>>

\* lines 125-126 of testNestedFieldExtraction: the two paths are pushed
ExtendFieldMappings ==
  /\ \A i \in 1..Len(fieldMappings["content"]) : fieldMappings["content"][i] # ContentPath
  /\ fieldMappings' = [fieldMappings EXCEPT !["content"] = Append(@, ContentPath),
                                            !["id"] = Append(@, IdPath)]
  /\ last' = Last("push", Undef, NoOptions, "", FALSE, NoRecord, Undef, NoReport)
  /\ UNCHANGED <<defaultValues, errorCount, now>>

\* whether the call draws a random number (a fallback id is generated)
DrawsRandom(response, options) ==
  \/ ~Truthy(response) \/ ~TypeofIsObject(response)
  \/ ~Iterable(RequiredFieldsOf(options))

HandleApiResponse ==
  /\ errorCount < MaxCount
  /\ \E response \in HandlerResponses, options \in HandlerOptions :
       /\ \E r \in IF DrawsRandom(response, options) THEN RandomSuffixes ELSE {""} :
            LET out == handleApiResponse(fieldMappings, defaultValues, errorCount,
                                         response, options, now, r)
            IN /\ errorCount' = out.errorCount
               /\ last' = Last("handleApiResponse", response, options, "",
                               out.threw, out.rec, Undef, NoReport)
  /\ UNCHANGED <<fieldMappings, defaultValues, now>>

\* one call of the callable createSafeApiWrapper(apiCall, options) returned
SafeApiCall ==
  /\ errorCount < MaxCount
  /\ \E apiCall \in ApiCalls, options \in WrapperOptions :
       \E r \in IF apiCall.threw \/ DrawsRandom(apiCall.value, options)
                THEN RandomSuffixes ELSE {""} :
         LET out == safeApiWrapper(fieldMappings, defaultValues, errorCount,
                                   apiCall, options, now, r)
         IN /\ errorCount' = out.errorCount
            /\ last' = [Last("safeApiWrapper", apiCall.value, options, "",
                             out.threw, out.rec, Undef, NoReport)
                          EXCEPT !.apiThrew = apiCall.threw]
  /\ UNCHANGED <<fieldMappings, defaultValues, now>>

GenerateErrorReport ==
  /\ last' = Last("generateErrorReport", Undef, NoOptions, "", FALSE, NoRecord, Undef,
                  generateErrorReport(errorCount, now))
  /\ UNCHANGED <<fieldMappings, defaultValues, errorCount, now>>

Next ==
  \/ Tick
  \/ ExtendFieldMappings
  \/ HandleApiResponse
  \/ SafeApiCall
  \/ GenerateErrorReport

Spec == Init /\ [][Next]_vars

---------------------------------------------------------------------------
(* The validator's operations applied to one input *)

ExtendedFieldMappings ==
  [InitialFieldMappings EXCEPT !["content"] = Append(@, ContentPath),
                               !["id"] = Append(@, IdPath)]

InitV ==
  /\ fieldMappings \in {InitialFieldMappings, ExtendedFieldMappings}
  /\ now = 0
  /\ \E r \in RandomSuffixes : defaultValues = ConstructDefaults(0, r)
  /\ errorCount = 0
  /\ \E response \in Responses \cup InvalidResponses :
       \/ \E field \in FieldChoices :
            last = Last("extractInput", response, NoOptions, field,
                        FALSE, NoRecord, Undef, NoReport)
       \/ \E req \in RequiredChoices :
            last = Last("normalizeInput", response, Options(TRUE, req, FALSE, FALSE), "",
                        FALSE, NoRecord, Undef, NoReport)

ExtractField ==
  /\ last.op = "extractInput"
  /\ last' = [last EXCEPT
                !.op = "extractField",
                !.value = extractField(fieldMappings, last.response, last.field)]
  /\ UNCHANGED <<fieldMappings, defaultValues, errorCount, now>>

ValidateAndNormalize ==
  /\ last.op = "normalizeInput"
  /\ \E r \in IF DrawsRandom(last.response, last.options) THEN RandomSuffixes ELSE {""} :
       LET out == validateAndNormalize(fieldMappings, defaultValues, last.response,
                                       RequiredFieldsOf(last.options), now, r)
       IN last' = [last EXCEPT !.op = "validateAndNormalize",
                               !.threw = out.threw, !.rec = out.rec]
  /\ UNCHANGED <<fieldMappings, defaultValues, errorCount, now>>

NextV ==
  \/ ExtractField
  \/ ValidateAndNormalize

SpecV == InitV /\ [][NextV]_vars

---------------------------------------------------------------------------
(* Properties of the handler (checked under Spec) *)

\* record[field]
FieldOf(rec, field) == GetKey(Obj(rec.fields), field)

\* the record is one that createFallbackResponse builds
IsFallbackRecord(rec) ==
  \E t \in 0..MaxClock, r \in RandomSuffixes : rec = createFallbackResponse(t, r)

\* the last step was a handleApiResponse call with the default options
HandledByDefault == last.op = "handleApiResponse" /\ last.options = NoOptions

\* C1: for each raw input among null, undefined, "", 123 and [],
\* handleApiResponse with the default options returns the total-fallback
\* record: the content is the apology text, error is set (truthy), and the
\* issues are exactly <<"Complete fallback response generated">>.
C1_InvalidInputTotalFallback ==
  (HandledByDefault /\ last.response \in InvalidResponses)
    => /\ ~last.threw
       /\ FieldOf(last.rec, "content") = Str(FallbackContent)
       /\ Truthy(FieldOf(last.rec, "error"))
       /\ last.rec.validation.issues = <<"Complete fallback response generated">>

\* a fault occurs while the call is processed: the response passes the guard of
\* line 47 and requiredFields cannot be iterated
FaultOccurs ==
  /\ last.op = "handleApiResponse"
  /\ last.response.t \in {"object", "array"}
  /\ last.options.hasRequiredFields
  /\ last.options.requiredFields.t # "array"

FallbackEnabled ==
  ~last.options.hasEnableFallback \/ last.options.enableFallback

\* C2: when a fault occurs while handleApiResponse processes a call, the call
\* returns the createFallbackResponse record if enableFallback is true or
\* unset, and raises the fault if enableFallback is false; with fallback
\* enabled no call ever raises, it always returns a record.
C2_FaultFallbackOrRethrow ==
  /\ FaultOccurs =>
       IF FallbackEnabled
       THEN ~last.threw /\ IsFallbackRecord(last.rec)
       ELSE last.threw
  /\ (last.op = "handleApiResponse" /\ FallbackEnabled) =>
       (~last.threw /\ last.rec # NoRecord)

\* C2 witness: a fault occurred with fallback enabled and the fallback record
\* came back
C2_Witness ==
  FaultOccurs /\ FallbackEnabled /\ ~last.threw /\ IsFallbackRecord(last.rec)

\* this step is a handleApiResponse call (time does not pass during a call)
HandleStep == last'.op = "handleApiResponse" /\ now' = now

\* C3: every handleApiResponse call that returns a record with at least one
\* issue increments errorCount by exactly 1, and every call that returns a
\* record with no issue sets errorCount to 0, the calls that return the
\* fallback record included.
C3_ErrorCountFollowsIssues ==
  [][(HandleStep /\ ~last'.threw) =>
       IF Len(last'.rec.validation.issues) > 0
       THEN errorCount' = errorCount + 1
       ELSE errorCount' = 0]_vars

\* the call recorded in l normalised an object and its id fell back to the default
IdDefaulted(l) ==
  /\ l.op = "handleApiResponse"
  /\ ~l.threw
  /\ l.response.t \in {"object", "array"}
  /\ \A i \in 1..Len(fieldMappings["id"]) :
       ~hasNestedProperty(l.response, fieldMappings["id"][i])

\* C7: the id default is generated afresh on every normalisation: of two
\* successive normalisations on one validator in which id falls back to its
\* default, the second obtains an id that differs from the first one's.
C7_DefaultIdFreshPerCall ==
  [][(HandleStep /\ IdDefaulted(last) /\ IdDefaulted(last'))
       => FieldOf(last'.rec, "id") # FieldOf(last.rec, "id")]_vars

Reported == last.op = "generateErrorReport"

\* C10: generateErrorReport returns errorCount and maxErrors (5) as they are,
\* status "critical" exactly when errorCount > 5 and "normal" otherwise, and
\* 0 recommendations when errorCount = 0, 2 when 1 <= errorCount <= 5, 4 when
\* errorCount > 5.
C10_ReportInvariant ==
  Reported =>
    /\ last.report.errorCount = errorCount
    /\ last.report.maxErrors = 5
    /\ last.report.status = (IF errorCount > 5 THEN "critical" ELSE "normal")
    /\ Len(last.report.recommendations) =
         (IF errorCount = 0 THEN 0 ELSE IF errorCount <= 5 THEN 2 ELSE 4)

\* C10 (whole): the report is as C10_ReportInvariant says in every reachable
\* state, and the step that generates it leaves errorCount unchanged.
C10_ErrorReport ==
  /\ []C10_ReportInvariant
  /\ [][last'.op = "generateErrorReport" => errorCount' = errorCount]_vars

\* C10 witness: a report generated at errorCount = 6 says critical, with 4
\* recommendations
C10_Witness ==
  /\ Reported
  /\ errorCount = 6
  /\ last.report.status = "critical"
  /\ Len(last.report.recommendations) = 4

\* this step is a call of the safe wrapper
WrapperStep == last'.op = "safeApiWrapper" /\ now' = now

\* C11: the callable of createSafeApiWrapper(apiCall, options) returns, when
\* apiCall completes with a value, exactly what handleApiResponse(value,
\* options) returns (record, raised fault and errorCount alike); when apiCall
\* raises it leaves errorCount unchanged and returns the createFallbackResponse
\* record, unless options.enableFallback is false: then the fault propagates.
C11_SafeWrapper ==
  [][WrapperStep =>
       IF last'.apiThrew
       THEN /\ errorCount' = errorCount
            /\ IF last'.options.hasEnableFallback /\ last'.options.enableFallback = FALSE
               THEN last'.threw
               ELSE ~last'.threw /\ IsFallbackRecord(last'.rec)
       ELSE \E r \in RandomSuffixes \cup {""} :
              LET handled == handleApiResponse(fieldMappings, defaultValues, errorCount,
                                               last'.response, last'.options, now, r)
              IN /\ last'.threw = handled.threw
                 /\ last'.rec = handled.rec
                 /\ errorCount' = handled.errorCount]_vars

\* C11 witness: apiCall raised after errors had been counted; the wrapper
\* returned the fallback record and the count is still there
C11_Witness ==
  /\ last.op = "safeApiWrapper"
  /\ last.apiThrew
  /\ ~last.threw
  /\ IsFallbackRecord(last.rec)
  /\ errorCount = 2

---------------------------------------------------------------------------
(* Properties of the validator (checked under SpecV) *)

\* the segments of a well-formed dot-path
Segments(path) == SelectSeq(path, LAMBDA piece : piece # ".")

IsNonNullObject(x) == x.t \in {"object", "array"}

OwnKeys(x) == {x.e[i][1] : i \in 1..Len(x.e)}

OwnValue(x, key) == x.e[CHOOSE i \in 1..Len(x.e) : x.e[i][1] = key][2]

\* the values met on the way down the segments ks: w[0] is the response
Walk(response, ks) ==
  LET w[n \in 0..Len(ks)] ==
        IF n = 0 THEN response
        ELSE IF IsNonNullObject(w[n - 1]) /\ ks[n] \in OwnKeys(w[n - 1])
             THEN OwnValue(w[n - 1], ks[n])
             ELSE Undef
  IN w

\* every intermediate segment is a non-null object that contains the next one
FullyPresent(response, path) ==
  LET ks == Segments(path)
      w == Walk(response, ks)
  IN \A n \in 1..Len(ks) : IsNonNullObject(w[n - 1]) /\ ks[n] \in OwnKeys(w[n - 1])

ValueAt(response, path) ==
  LET ks == Segments(path) IN Walk(response, ks)[Len(ks)]

\* the synonym table's candidates for a field, or the field itself if unmapped
Candidates(field) ==
  IF field \in CanonicalFields THEN fieldMappings[field] ELSE << <<field>> >>

PresentCandidates(response, field) ==
  {i \in 1..Len(Candidates(field)) : FullyPresent(response, Candidates(field)[i])}

FirstPresent(response, field) ==
  CHOOSE i \in PresentCandidates(response, field) :
    \A j \in PresentCandidates(response, field) : i <= j

\* the same object with its own keys in the opposite order
ReverseKeys(x) ==
  [x EXCEPT !.e = [i \in 1..Len(x.e) |-> x.e[Len(x.e) + 1 - i]]]

Extracted == last.op = "extractField"

\* C4: extractField returns the value at the first candidate, in table order
\* (or the field itself when unmapped), whose dot-path is fully present in
\* the response, and null when none is; the order of the response's keys
\* does not change the result, and the paths pushed at runtime come last.
C4_FirstPresentCandidateWins ==
  Extracted =>
    /\ IF PresentCandidates(last.response, last.field) = {}
       THEN last.value = Null
       ELSE last.value =
              ValueAt(last.response,
                      Candidates(last.field)[FirstPresent(last.response, last.field)])
    /\ last.value = extractField(fieldMappings, ReverseKeys(last.response), last.field)

\* C4 witness: with the runtime path data.message in the table, the response
\* {data: {message: ...}, text: "b"} resolves content to "b": text comes
\* second in the object and before data.message in the table
C4_Witness ==
  /\ Extracted
  /\ last.field = "content"
  /\ fieldMappings = ExtendedFieldMappings
  /\ Len(last.response.e) = 2
  /\ last.response.e[1][1] = "data"
  /\ FullyPresent(last.response, ContentPath)
  /\ last.response.e[2] = <<"text", Str("b")>>
  /\ last.value = Str("b")

\* the last step normalised a non-null object and returned a record
Normalized ==
  /\ last.op = "validateAndNormalize"
  /\ ~last.threw
  /\ IsNonNullObject(last.response)

\* the names in the requiredFields array of the last call
RequiredNames ==
  [i \in 1..Len(last.options.requiredFields.e) |-> last.options.requiredFields.e[i][2].v]

\* extraction of the field from the last response gave null
NotExtracted(field) == extractField(fieldMappings, last.response, field) = Null

MissingIssues(names) == [i \in 1..Len(names) |-> "Missing field: " \o names[i]]

\* C5: validateAndNormalize sets each required field that cannot be extracted
\* to DefaultTable[field], or to the empty string when the field has no
\* DefaultTable entry, and the issues are exactly one "Missing field: <field>"
\* per such field, in requiredFields order.
C5_MissingRequiredGetsDefault ==
  Normalized =>
    /\ \A i \in 1..Len(RequiredNames) :
         NotExtracted(RequiredNames[i]) =>
           FieldOf(last.rec, RequiredNames[i]) =
             (IF RequiredNames[i] \in CanonicalFields
              THEN defaultValues[RequiredNames[i]]
              ELSE Str(""))
    /\ last.rec.validation.issues =
         MissingIssues(SelectSeq(RequiredNames, NotExtracted))

\* the first present candidate of the field holds an explicit null
PresentWithNull(response, field) ==
  /\ PresentCandidates(response, field) # {}
  /\ ValueAt(response, Candidates(field)[FirstPresent(response, field)]) = Null

\* C6: extractField returns, when no candidate is present, a marker that
\* differs from what it returns for a first present candidate holding null;
\* and validateAndNormalize with requiredFields = ["content"] treats the
\* explicit null as present: no issue, no default substituted.
C6_NullDistinctFromMissing ==
  /\ (Extracted /\ PresentWithNull(last.response, last.field))
       => last.value # extractField(fieldMappings, Obj(<<>>), last.field)
  /\ (Normalized /\ RequiredNames = <<"content">>
        /\ PresentWithNull(last.response, "content"))
       => /\ last.rec.validation.issues = <<>>
          /\ FieldOf(last.rec, "content") = Null

Range(seq) == {seq[i] : i \in 1..Len(seq)}

\* C8 as stated: the issues are non-empty if and only if at least one
\* required or optional field received its default value.
C8_IssuesIffAnyDefaulted ==
  Normalized =>
    (Len(last.rec.validation.issues) > 0
       <=> \E f \in Range(RequiredNames) \cup Range(OptionalFields) : NotExtracted(f))

\* C8 amended: the issues are non-empty if and only if at least one required
\* field received its default value; a defaulted optional field adds no issue.
C8_IssuesIffRequiredDefaulted ==
  Normalized =>
    (Len(last.rec.validation.issues) > 0
       <=> \E f \in Range(RequiredNames) : NotExtracted(f))

\* C8 witness: a record without issues in which the optional field id was
\* defaulted
C8_Witness ==
  /\ Normalized
  /\ last.rec.validation.issues = <<>>
  /\ RequiredNames = <<"content">>
  /\ NotExtracted("id")
  /\ FieldOf(last.rec, "id") = defaultValues["id"]

\* C9: in every record validateAndNormalize or createFallbackResponse returns,
\* content (when required), id, timestamp, model, usage and error are set to
\* a defined value, and none is null except error.
C9_CanonicalFieldsDefined ==
  (last.op = "validateAndNormalize" /\ ~last.threw) =>
    \A f \in CanonicalFields :
      (f = "content" /\ IsNonNullObject(last.response)
         /\ "content" \notin Range(RequiredNames))
      \/ /\ f \in OwnKeys(Obj(last.rec.fields))
         /\ FieldOf(last.rec, f) # Undef
         /\ (f # "error" => FieldOf(last.rec, f) # Null)

ErrorKeys == {"error", "error_message", "errorMessage", "message"}

====
